---- MODULE Spec2Model ----
(***************************************************************************)
(* Model of libsolidity/analysis/ImmutableValidator.cpp: the pass that     *)
(* validates initialisation and reads of immutable state variables.        *)
(*                                                                         *)
(* The recursive descent of the AST visitor is modelled with an explicit   *)
(* continuation (agenda): the head task is the node or driver step that    *)
(* runs next, and a handler replaces it by the tasks it performs in order. *)
(***************************************************************************)
EXTENDS Integers, Sequences, FiniteSets, TLC

VARIABLES
    prog,                          \* the type-annotated program under analysis (input)
    agenda,                        \* continuation of the traversal
    m_inConstructionContext,
    m_inBranch,
    m_inLoop,
    m_currentConstructor,
    m_visitedCallables,
    m_initializedStateVariables,
    errors,                        \* m_errorReporter: diagnostics in emission order
    failed,                        \* a solAssert has thrown
    walks                          \* log of callable bodies entered (analyseCallable calls)

vars == <<prog, agenda, m_inConstructionContext, m_inBranch, m_inLoop,
          m_currentConstructor, m_visitedCallables, m_initializedStateVariables,
          errors, failed, walks>>

None == "none"

-----------------------------------------------------------------------------
(* AST nodes.  k: kind; ref: referenced declaration (variable or callable); *)
(* c, t, e: child lists; loc: source location.                              *)

Node(k, ref, c, t, e) == [k |-> k, ref |-> ref, c |-> c, t |-> t, e |-> e, loc |-> <<>>]

Assign(v)      == Node("assign", v, <<>>, <<>>, <<>>)    \* v = ... (lValueRequested, ordinaryLAssignment)
Read(v)        == Node("read", v, <<>>, <<>>, <<>>)      \* v used as a value
Compound(v)    == Node("compound", v, <<>>, <<>>, <<>>)  \* v += ... (lValueRequested only)
Call(f)        == Node("call", f, <<>>, <<>>, <<>>)      \* Identifier referencing a callable
Member(f)      == Node("member", f, <<>>, <<>>, <<>>)    \* super.f / Base.f
If(c, t, e)    == Node("if", "", c, t, e)
While(c, b)    == Node("while", "", c, b, <<>>)          \* while and do-while
For(h, b)      == Node("for", "", h, b, <<>>)
Return(x)      == Node("return", "", x, <<>>, <<>>)

RECURSIVE LabelSeq(_, _)
LabelSeq(s, p) ==
    [i \in DOMAIN s |->
        [s[i] EXCEPT !.loc = p \o <<i>>,
                     !.c = LabelSeq(s[i].c, p \o <<i, 1>>),
                     !.t = LabelSeq(s[i].t, p \o <<i, 2>>),
                     !.e = LabelSeq(s[i].e, p \o <<i, 3>>)]]

\* All nodes of a list in traversal (pre-)order.
RECURSIVE Flatten(_)
Flatten(s) ==
    IF Len(s) = 0 THEN <<>>
    ELSE <<Head(s)>> \o Flatten(Head(s).c) \o Flatten(Head(s).t)
                     \o Flatten(Head(s).e) \o Flatten(Tail(s))

-----------------------------------------------------------------------------
(* Program model (consumed).                                                *)

StateVar(id, contract, immutable, hasValue, value) ==
    [id |-> id, contract |-> contract, immutable |-> immutable,
     hasValue |-> hasValue, value |-> LabelSeq(value, <<id>>),
     isVisibleInDerivedContracts |-> TRUE]

\* a private state variable
PrivateStateVar(id, contract, immutable, hasValue, value) ==
    [StateVar(id, contract, immutable, hasValue, value)
        EXCEPT !.isVisibleInDerivedContracts = FALSE]

Callable(id, contract, name, kind, virtual, sig, modifiers, body) ==
    [id |-> id, contract |-> contract, name |-> name, kind |-> kind,
     virtual |-> virtual, sig |-> sig, implemented |-> TRUE,
     modifiers |-> LabelSeq(modifiers, <<id, 0>>), body |-> LabelSeq(body, <<id>>)]

Function(id, contract, name, virtual, body) ==
    Callable(id, contract, name, "function", virtual, "()", <<>>, body)

Constructor(id, contract, body) ==
    Callable(id, contract, "", "constructor", FALSE, "()", <<>>, body)

Modifier(id, contract, name, virtual, body) ==
    Callable(id, contract, name, "modifier", virtual, "", <<>>, body)

BaseArgs(contract, args) == [contract |-> contract, args |-> LabelSeq(args, <<contract>>)]

\* ContractDefinition::stateVariablesIncludingInherited: of the state variables
\* declared in the hierarchy, those of the contract itself and those of its
\* bases that are visible in derived contracts
stateVariablesIncludingInherited(lin, stateVars) ==
    SelectSeq(stateVars,
              LAMBDA v : v.contract = Head(lin) \/ v.isVisibleInDerivedContracts)

\* stateVars: the state variables declared by the contracts of the hierarchy
Program(lin, stateVars, callables, baseArgs) ==
    [linearizedBaseContracts |-> lin,
     stateVariables |-> stateVars,
     stateVariablesIncludingInherited |-> stateVariablesIncludingInherited(lin, stateVars),
     callables |-> callables,
     baseArgs |-> baseArgs]

m_currentContract(p) == Head(p.linearizedBaseContracts)

Ids(s) == {s[i].id : i \in DOMAIN s}

Decl(p, id) == LET i == CHOOSE j \in DOMAIN p.callables : p.callables[j].id = id
               IN  p.callables[i]

\* the declaration of state variable id
Var(p, id) == LET i == CHOOSE j \in DOMAIN p.stateVariables : p.stateVariables[j].id = id
              IN  p.stateVariables[i]

\* line 138: the referenced declaration is a state variable (any other
\* identifier of the model references a local variable)
IsStateVar(p, id) == id \in Ids(p.stateVariables)

isConstructor(d) == d.kind = "constructor"

definedFunctions(p, K) ==
    SelectSeq(p.callables, LAMBDA d : d.contract = K /\ d.kind \in {"function", "constructor"})

functionModifiers(p, K) ==
    SelectSeq(p.callables, LAMBDA d : d.contract = K /\ d.kind = "modifier")

constructor(p, K) ==
    LET cs == SelectSeq(definedFunctions(p, K), isConstructor)
    IN  IF Len(cs) = 0 THEN None ELSE cs[1].id

RECURSIVE Concat(_)
Concat(ss) == IF Len(ss) = 0 THEN <<>> ELSE Head(ss) \o Concat(Tail(ss))

\* the argument lists of all inheritance specifiers of K, in declaration order
baseContractArguments(p, K) ==
    LET as == SelectSeq(p.baseArgs, LAMBDA b : b.contract = K)
    IN  LabelSeq(Concat([i \in DOMAIN as |-> as[i].args]), <<K>>)

Reverse(s) == [i \in DOMAIN s |-> s[Len(s) + 1 - i]]

-----------------------------------------------------------------------------
(* Tasks of the continuation.                                               *)

NoNode == Node("", "", <<>>, <<>>, <<>>)

Task(t, n, c, b, via) == [t |-> t, n |-> n, c |-> c, b |-> b, via |-> via]

Visit(nodes) == [i \in DOMAIN nodes |-> Task("node", nodes[i], "", FALSE, "")]

Step(t, c)   == Task(t, NoNode, c, FALSE, "")

Enter(c, via, ref) == Task("callable", [NoNode EXCEPT !.ref = ref], c, FALSE, via)

HeadIs(t) == Len(agenda) > 0 /\ Head(agenda).t = t

HeadNode(k) == HeadIs("node") /\ Head(agenda).n.k = k

Error(kind, loc, v) == [kind |-> kind, loc |-> loc, var |-> v]

-----------------------------------------------------------------------------
(* ImmutableValidator::findFinalOverride                                    *)

RECURSIVE ScanFunctions(_, _)
ScanFunctions(fs, origin) ==
    IF Len(fs) = 0 THEN None
    ELSE IF Head(fs).name = origin.name /\ Head(fs).sig = origin.sig THEN Head(fs).id
    ELSE ScanFunctions(Tail(fs), origin)

RECURSIVE ScanModifiers(_, _)
ScanModifiers(ms, origin) ==
    IF Len(ms) = 0 THEN None
    ELSE IF Head(ms).name = origin.name THEN Head(ms).id
    ELSE ScanModifiers(Tail(ms), origin)

RECURSIVE ScanContracts(_, _, _)
ScanContracts(p, lin, origin) ==
    IF Len(lin) = 0 THEN None
    ELSE LET r == IF origin.kind = "modifier"
                  THEN ScanModifiers(functionModifiers(p, Head(lin)), origin)
                  ELSE ScanFunctions(definedFunctions(p, Head(lin)), origin)
         IN  IF r # None THEN r ELSE ScanContracts(p, Tail(lin), origin)

findFinalOverride(p, callable) ==
    LET d == Decl(p, callable)
        r == ScanContracts(p, p.linearizedBaseContracts, d)
    IN  IF ~d.virtual THEN callable
        ELSE IF r # None THEN r
        ELSE callable

-----------------------------------------------------------------------------
(* ImmutableValidator::checkAllVariablesInitialized                         *)

\* the check stopping at the first immutable that is not initialized
checkAllVariablesInitializedFirstOnly(p, initialized, location) ==
    LET missing == SelectSeq(p.stateVariablesIncludingInherited,
                             LAMBDA v : v.immutable /\ v.id \notin initialized)
    IN  IF Len(missing) = 0 THEN <<>>
        ELSE <<Error("IncompleteConstruction", location, missing[1].id)>>

checkAllVariablesInitialized(p, initialized, location) ==
    LET missing == SelectSeq(p.stateVariablesIncludingInherited,
                             LAMBDA v : v.immutable /\ v.id \notin initialized)
    IN  [i \in DOMAIN missing |-> Error("IncompleteConstruction", location, missing[i].id)]

-----------------------------------------------------------------------------
(* ImmutableValidator::analyze                                              *)

InitializerTasks(p) ==
    LET withValue == SelectSeq(p.stateVariablesIncludingInherited, LAMBDA v : v.hasValue)
    IN  Concat([i \in DOMAIN withValue |->
                   Visit(withValue[i].value) \o <<Step("recordInitializer", withValue[i].id)>>])

ContractTasks(p) ==
    LET order == Reverse(p.linearizedBaseContracts)
    IN  [i \in DOMAIN order |-> Step("contract", order[i])]

SweepTasks(t, ds) == [i \in DOMAIN ds |-> Step(t, ds[i].id)]

\* lines 24-33 and the heads of the loops of lines 35 and 60
Analyze ==
    /\ HeadIs("analyze")
    /\ m_inConstructionContext' = TRUE
    /\ agenda' = InitializerTasks(prog) \o ContractTasks(prog)
                 \o <<Step("finalCheck", "")>> \o Tail(agenda)
    /\ UNCHANGED <<prog, m_inBranch, m_inLoop, m_currentConstructor, m_visitedCallables,
                   m_initializedStateVariables, errors, failed, walks>>

\* line 32: solAssert(m_initializedStateVariables.insert(stateVar).second, "")
RecordInitializer ==
    /\ HeadIs("recordInitializer")
    /\ LET v == Head(agenda).c
       IN  IF v \in m_initializedStateVariables
           THEN /\ failed' = TRUE
                /\ agenda' = <<>>
                /\ UNCHANGED m_initializedStateVariables
           ELSE /\ m_initializedStateVariables' = m_initializedStateVariables \cup {v}
                /\ agenda' = Tail(agenda)
                /\ UNCHANGED failed
    /\ UNCHANGED <<prog, m_inConstructionContext, m_inBranch, m_inLoop, m_currentConstructor,
                   m_visitedCallables, errors, walks>>

\* lines 35-57: one iteration of the loop over the reversed linearization
VisitContract ==
    /\ HeadIs("contract")
    /\ LET K    == Head(agenda).c
           ctor == constructor(prog, K)
       IN  agenda' = (IF ctor # None
                      THEN <<Enter(ctor, "driver", ctor), Step("markVisited", ctor)>>
                      ELSE <<>>)
                     \o Visit(baseContractArguments(prog, K))
                     \o <<Step("leaveConstructionContext", K)>>
                     \o SweepTasks("sweepFunction", definedFunctions(prog, K))
                     \o SweepTasks("sweepModifier", functionModifiers(prog, K))
                     \o Tail(agenda)
    /\ m_inConstructionContext' = TRUE
    /\ UNCHANGED <<prog, m_inBranch, m_inLoop, m_currentConstructor, m_visitedCallables,
                   m_initializedStateVariables, errors, failed, walks>>

\* line 42
MarkConstructorVisited ==
    /\ HeadIs("markVisited")
    /\ m_visitedCallables' = m_visitedCallables \cup {Head(agenda).c}
    /\ agenda' = Tail(agenda)
    /\ UNCHANGED <<prog, m_inConstructionContext, m_inBranch, m_inLoop, m_currentConstructor,
                   m_initializedStateVariables, errors, failed, walks>>

\* the construction context left set when the constructor part is over
LeaveConstructionContextKept ==
    /\ HeadIs("leaveConstructionContext")
    /\ agenda' = Tail(agenda)
    /\ UNCHANGED <<prog, m_inConstructionContext, m_inBranch, m_inLoop, m_currentConstructor,
                   m_visitedCallables, m_initializedStateVariables, errors, failed, walks>>

\* line 49
LeaveConstructionContext ==
    /\ HeadIs("leaveConstructionContext")
    /\ m_inConstructionContext' = FALSE
    /\ agenda' = Tail(agenda)
    /\ UNCHANGED <<prog, m_inBranch, m_inLoop, m_currentConstructor, m_visitedCallables,
                   m_initializedStateVariables, errors, failed, walks>>

\* lines 51-53
SweepFunction ==
    /\ HeadIs("sweepFunction")
    /\ LET funcDef == Head(agenda).c
       IN  agenda' = (IF funcDef \notin m_visitedCallables
                      THEN <<Enter(funcDef, "sweep", funcDef)>>
                      ELSE <<>>)
                     \o Tail(agenda)
    /\ UNCHANGED <<prog, m_inConstructionContext, m_inBranch, m_inLoop, m_currentConstructor,
                   m_visitedCallables, m_initializedStateVariables, errors, failed, walks>>

\* lines 55-57
SweepModifier ==
    /\ HeadIs("sweepModifier")
    /\ LET modDef == Head(agenda).c
       IN  agenda' = (IF modDef \notin m_visitedCallables
                      THEN <<Enter(modDef, "sweep", modDef)>>
                      ELSE <<>>)
                     \o Tail(agenda)
    /\ UNCHANGED <<prog, m_inConstructionContext, m_inBranch, m_inLoop, m_currentConstructor,
                   m_visitedCallables, m_initializedStateVariables, errors, failed, walks>>

\* line 60
FinalCheck ==
    /\ HeadIs("finalCheck")
    /\ errors' = errors \o checkAllVariablesInitialized(prog, m_initializedStateVariables,
                                                        <<m_currentContract(prog)>>)
    /\ agenda' = Tail(agenda)
    /\ UNCHANGED <<prog, m_inConstructionContext, m_inBranch, m_inLoop, m_currentConstructor,
                   m_visitedCallables, m_initializedStateVariables, failed, walks>>

-----------------------------------------------------------------------------
(* ImmutableValidator::analyseCallable, reached from visit(FunctionDefinition) *)
(* and visit(ModifierDefinition)                                            *)

analyseCallable ==
    /\ HeadIs("callable")
    /\ LET d == Decl(prog, Head(agenda).c)
       IN  /\ m_currentConstructor' = IF isConstructor(d) THEN d.id ELSE None
           /\ agenda' = (IF d.kind = "modifier" THEN <<>> ELSE Visit(d.modifiers))
                        \o (IF d.implemented THEN Visit(d.body) ELSE <<>>)
                        \o <<Step("restoreConstructor", m_currentConstructor)>>
                        \o Tail(agenda)
           /\ walks' = Append(walks, [c |-> d.id, via |-> Head(agenda).via,
                                      ref |-> Head(agenda).n.ref,
                                      ctx |-> m_inConstructionContext])
    /\ UNCHANGED <<prog, m_inConstructionContext, m_inBranch, m_inLoop, m_visitedCallables,
                   m_initializedStateVariables, errors, failed>>

\* line 209
RestoreConstructor ==
    /\ HeadIs("restoreConstructor")
    /\ m_currentConstructor' = Head(agenda).c
    /\ agenda' = Tail(agenda)
    /\ UNCHANGED <<prog, m_inConstructionContext, m_inBranch, m_inLoop, m_visitedCallables,
                   m_initializedStateVariables, errors, failed, walks>>

-----------------------------------------------------------------------------
(* ImmutableValidator::visit(MemberAccess)                                  *)

\* line 77: the object expression is walked before the declaration is looked at
VisitMemberAccess ==
    /\ HeadNode("member")
    /\ agenda' = Visit(Head(agenda).n.c)
                 \o <<Task("memberDeclaration", Head(agenda).n, "", FALSE, "")>>
                 \o Tail(agenda)
    /\ UNCHANGED <<prog, m_inConstructionContext, m_inBranch, m_inLoop, m_currentConstructor,
                   m_visitedCallables, m_initializedStateVariables, errors, failed, walks>>

\* lines 79-86
VisitMemberDeclaration ==
    /\ HeadIs("memberDeclaration")
    /\ LET d == Head(agenda).n.ref
       IN  /\ m_visitedCallables' = m_visitedCallables \cup {d}
           /\ agenda' = (IF d \notin m_visitedCallables THEN <<Enter(d, "member", d)>> ELSE <<>>)
                        \o Tail(agenda)
    /\ UNCHANGED <<prog, m_inConstructionContext, m_inBranch, m_inLoop, m_currentConstructor,
                   m_initializedStateVariables, errors, failed, walks>>

-----------------------------------------------------------------------------
(* ImmutableValidator::visit(IfStatement)                                   *)

\* lines 93-95
VisitIfStatement ==
    /\ HeadNode("if")
    /\ LET n == Head(agenda).n
       IN  agenda' = Visit(n.c) \o <<Step("enterBranch", "")>> \o Visit(n.t) \o Visit(n.e)
                     \o <<Task("restoreBranch", NoNode, "", m_inBranch, "")>> \o Tail(agenda)
    /\ UNCHANGED <<prog, m_inConstructionContext, m_inBranch, m_inLoop, m_currentConstructor,
                   m_visitedCallables, m_initializedStateVariables, errors, failed, walks>>

\* line 97
EnterBranch ==
    /\ HeadIs("enterBranch")
    /\ m_inBranch' = TRUE
    /\ agenda' = Tail(agenda)
    /\ UNCHANGED <<prog, m_inConstructionContext, m_inLoop, m_currentConstructor,
                   m_visitedCallables, m_initializedStateVariables, errors, failed, walks>>

\* the branch flag cleared on exit instead of restored
RestoreBranchCleared ==
    /\ HeadIs("restoreBranch")
    /\ m_inBranch' = FALSE
    /\ agenda' = Tail(agenda)
    /\ UNCHANGED <<prog, m_inConstructionContext, m_inLoop, m_currentConstructor,
                   m_visitedCallables, m_initializedStateVariables, errors, failed, walks>>

\* line 104
RestoreBranch ==
    /\ HeadIs("restoreBranch")
    /\ m_inBranch' = Head(agenda).b
    /\ agenda' = Tail(agenda)
    /\ UNCHANGED <<prog, m_inConstructionContext, m_inLoop, m_currentConstructor,
                   m_visitedCallables, m_initializedStateVariables, errors, failed, walks>>

-----------------------------------------------------------------------------
(* ImmutableValidator::visit(WhileStatement)                                *)

\* lines 112-116
VisitWhileStatement ==
    /\ HeadNode("while")
    /\ LET n == Head(agenda).n
       IN  agenda' = Visit(n.c) \o Visit(n.t)
                     \o <<Task("restoreLoop", NoNode, "", m_inLoop, "")>> \o Tail(agenda)
    /\ m_inLoop' = TRUE
    /\ UNCHANGED <<prog, m_inConstructionContext, m_inBranch, m_currentConstructor,
                   m_visitedCallables, m_initializedStateVariables, errors, failed, walks>>

\* line 118
RestoreLoop ==
    /\ HeadIs("restoreLoop")
    /\ m_inLoop' = Head(agenda).b
    /\ agenda' = Tail(agenda)
    /\ UNCHANGED <<prog, m_inConstructionContext, m_inBranch, m_currentConstructor,
                   m_visitedCallables, m_initializedStateVariables, errors, failed, walks>>

-----------------------------------------------------------------------------
(* Node kinds the validator does not override: every child is visited.      *)

VisitForStatement ==
    /\ HeadNode("for")
    /\ agenda' = Visit(Head(agenda).n.c) \o Visit(Head(agenda).n.t) \o Tail(agenda)
    /\ UNCHANGED <<prog, m_inConstructionContext, m_inBranch, m_inLoop, m_currentConstructor,
                   m_visitedCallables, m_initializedStateVariables, errors, failed, walks>>

-----------------------------------------------------------------------------
(* ImmutableValidator::visit(Identifier)                                    *)

\* the final override walked whether or not it was visited before
VisitIdentifierCallableUnguarded ==
    /\ HeadNode("call")
    /\ LET finalDef == findFinalOverride(prog, Head(agenda).n.ref)
       IN  /\ m_visitedCallables' = m_visitedCallables \cup {finalDef}
           /\ agenda' = <<Enter(finalDef, "identifier", Head(agenda).n.ref)>> \o Tail(agenda)
    /\ UNCHANGED <<prog, m_inConstructionContext, m_inBranch, m_inLoop, m_currentConstructor,
                   m_initializedStateVariables, errors, failed, walks>>

\* lines 126-134
VisitIdentifierCallable ==
    /\ HeadNode("call")
    /\ LET finalDef == findFinalOverride(prog, Head(agenda).n.ref)
       IN  /\ m_visitedCallables' = m_visitedCallables \cup {finalDef}
           /\ agenda' = (IF finalDef \notin m_visitedCallables
                         THEN <<Enter(finalDef, "identifier", Head(agenda).n.ref)>>
                         ELSE <<>>)
                        \o Tail(agenda)
    /\ UNCHANGED <<prog, m_inConstructionContext, m_inBranch, m_inLoop, m_currentConstructor,
                   m_initializedStateVariables, errors, failed, walks>>

lValueRequested(n) == n.k \in {"assign", "compound"}

ordinaryLAssignment(n) == n.k = "assign"

\* the loop and branch checks made before the constructor checks
LocationErrorsLoopFirst(p, n, currentConstructor, inLoop, inBranch) ==
    IF inLoop
    THEN <<Error("InitInLoop", n.loc, n.ref)>>
    ELSE IF inBranch
    THEN <<Error("InitInBranch", n.loc, n.ref)>>
    ELSE IF currentConstructor = None
    THEN <<Error("InvalidInitLocation", n.loc, n.ref)>>
    ELSE IF Decl(p, currentConstructor).contract # Var(p, n.ref).contract
    THEN <<Error("WrongContractInit", n.loc, n.ref)>>
    ELSE <<>>

\* the branch check made before the loop check
LocationErrorsBranchFirst(p, n, currentConstructor, inLoop, inBranch) ==
    IF currentConstructor = None
    THEN <<Error("InvalidInitLocation", n.loc, n.ref)>>
    ELSE IF Decl(p, currentConstructor).contract # Var(p, n.ref).contract
    THEN <<Error("WrongContractInit", n.loc, n.ref)>>
    ELSE IF inBranch
    THEN <<Error("InitInBranch", n.loc, n.ref)>>
    ELSE IF inLoop
    THEN <<Error("InitInLoop", n.loc, n.ref)>>
    ELSE <<>>

\* lines 143-158: at most one location error, in this order
LocationErrors(p, n, currentConstructor, inLoop, inBranch) ==
    IF currentConstructor = None
    THEN <<Error("InvalidInitLocation", n.loc, n.ref)>>
    ELSE IF Decl(p, currentConstructor).contract # Var(p, n.ref).contract
    THEN <<Error("WrongContractInit", n.loc, n.ref)>>
    ELSE IF inLoop
    THEN <<Error("InitInLoop", n.loc, n.ref)>>
    ELSE IF inBranch
    THEN <<Error("InitInBranch", n.loc, n.ref)>>
    ELSE <<>>

\* lines 160-166
DoubleInitErrors(n, initialized) ==
    IF n.ref \in initialized THEN <<Error("DoubleInit", n.loc, n.ref)>> ELSE <<>>

\* lines 168-171
ReadErrors(n, inConstructionContext) ==
    IF inConstructionContext
    THEN <<Error("ImmutableReadDuringConstruction", n.loc, n.ref)>>
    ELSE <<>>

\* lines 136-174
VisitIdentifierVariable ==
    /\ HeadIs("node") /\ Head(agenda).n.k \in {"assign", "read", "compound"}
    /\ LET n == Head(agenda).n
       IN  IF ~IsStateVar(prog, n.ref) \/ ~Var(prog, n.ref).immutable
           THEN UNCHANGED <<m_initializedStateVariables, errors>>
           ELSE IF lValueRequested(n) /\ ordinaryLAssignment(n)
           THEN /\ errors' = errors
                             \o LocationErrors(prog, n, m_currentConstructor, m_inLoop, m_inBranch)
                             \o DoubleInitErrors(n, m_initializedStateVariables)
                /\ m_initializedStateVariables' = m_initializedStateVariables \cup {n.ref}
           ELSE /\ errors' = errors \o ReadErrors(n, m_inConstructionContext)
                /\ UNCHANGED m_initializedStateVariables
    /\ agenda' = Tail(agenda)
    /\ UNCHANGED <<prog, m_inConstructionContext, m_inBranch, m_inLoop, m_currentConstructor,
                   m_visitedCallables, failed, walks>>

-----------------------------------------------------------------------------
(* ImmutableValidator::visit(Return)                                        *)

\* the completeness check run at the return of any callable
VisitReturnAlwaysChecked ==
    /\ HeadNode("return")
    /\ LET n == Head(agenda).n
       IN  agenda' = Visit(n.c) \o <<Task("checkReturn", n, "", FALSE, "")>> \o Tail(agenda)
    /\ UNCHANGED <<prog, m_inConstructionContext, m_inBranch, m_inLoop, m_currentConstructor,
                   m_visitedCallables, m_initializedStateVariables, errors, failed, walks>>

\* lines 179-183
VisitReturn ==
    /\ HeadNode("return")
    /\ LET n == Head(agenda).n
       IN  agenda' = Visit(n.c)
                     \o (IF m_currentConstructor = None
                         THEN <<>>
                         ELSE <<Task("checkReturn", n, "", FALSE, "")>>)
                     \o Tail(agenda)
    /\ UNCHANGED <<prog, m_inConstructionContext, m_inBranch, m_inLoop, m_currentConstructor,
                   m_visitedCallables, m_initializedStateVariables, errors, failed, walks>>

\* line 185
CheckAtReturn ==
    /\ HeadIs("checkReturn")
    /\ errors' = errors \o checkAllVariablesInitialized(prog, m_initializedStateVariables,
                                                        Head(agenda).n.loc)
    /\ agenda' = Tail(agenda)
    /\ UNCHANGED <<prog, m_inConstructionContext, m_inBranch, m_inLoop, m_currentConstructor,
                   m_visitedCallables, m_initializedStateVariables, failed, walks>>

-----------------------------------------------------------------------------

Next ==
    \/ Analyze
    \/ RecordInitializer
    \/ VisitContract
    \/ MarkConstructorVisited
    \/ LeaveConstructionContext
    \/ SweepFunction
    \/ SweepModifier
    \/ FinalCheck
    \/ analyseCallable
    \/ RestoreConstructor
    \/ VisitMemberAccess
    \/ VisitMemberDeclaration
    \/ VisitIfStatement
    \/ EnterBranch
    \/ RestoreBranch
    \/ VisitWhileStatement
    \/ RestoreLoop
    \/ VisitForStatement
    \/ VisitIdentifierCallable
    \/ VisitIdentifierVariable
    \/ VisitReturn
    \/ CheckAtReturn

\* State after construction of the validator for program p
Start(p) ==
    /\ prog = p
    /\ agenda = <<Step("analyze", "")>>
    /\ m_inConstructionContext = FALSE
    /\ m_inBranch = FALSE
    /\ m_inLoop = FALSE
    /\ m_currentConstructor = None
    /\ m_visitedCallables = {}
    /\ m_initializedStateVariables = {}
    /\ errors = <<>>
    /\ failed = FALSE
    /\ walks = <<>>

Done == Len(agenda) = 0 /\ ~failed

-----------------------------------------------------------------------------
(* The syntax tests of test/libsolidity/syntaxTests/immutable.              *)

ImmutableX(contract) == StateVar("x", contract, TRUE, FALSE, <<>>)

\* ctor_initialization_indirect_reading.sol
CtorInitializationIndirectReading ==
    Program(<<"C">>,
            <<ImmutableX("C")>>,
            <<Constructor("C.ctor", "C", <<Assign("x"), Call("C.f")>>),
              Function("C.f", "C", "f", FALSE, <<Return(<<Read("x")>>)>>)>>,
            <<>>)

\* function_initialization_reading.sol
FunctionInitializationReading ==
    Program(<<"C">>,
            <<StateVar("x", "C", TRUE, TRUE, <<Call("C.f")>>)>>,
            <<Function("C.f", "C", "f", FALSE, <<Return(<<Read("x")>>)>>)>>,
            <<>>)

\* function_pointer_reading.sol
FunctionPointerReading ==
    Program(<<"C", "B">>,
            <<ImmutableX("B")>>,
            <<Constructor("B.ctor", "B", <<Assign("x"), Read("fp")>>),
              Function("C.f", "C", "f", FALSE, <<Return(<<Read("x")>>)>>)>>,
            <<BaseArgs("C", <<Member("C.f")>>)>>)

\* multiple_inheritance_virtual_functions_with_super.sol, analysed for contract C
\* (lin = <<"C", "B", "A">>) and for contract B alone (lin = <<"B">>)
MultipleInheritanceVirtualFunctionsWithSuper(lin) ==
    Program(lin,
            <<ImmutableX("B")>>,
            <<Function("A.f", "A", "f", TRUE, <<Return(<<>>)>>),
              Constructor("B.ctor", "B", <<Assign("x"), Call("B.xInit")>>),
              Function("B.xInit", "B", "xInit", TRUE, <<Return(<<Call("B.f")>>)>>),
              Function("B.f", "B", "f", TRUE, <<Return(<<>>)>>),
              Function("C.xInit", "C", "xInit", FALSE, <<Return(<<Member("B.xInit")>>)>>),
              Function("C.f", "C", "f", FALSE, <<Return(<<Read("x")>>)>>)>>,
            <<>>)

\* the test of an immutable assigned in a helper called from the constructor
CtorIndirectInitialization ==
    Program(<<"C">>,
            <<ImmutableX("C")>>,
            <<Constructor("C.ctor", "C", <<Call("C.initX")>>),
              Function("C.initX", "C", "initX", FALSE, <<Assign("x")>>)>>,
            <<>>)

SyntaxTests ==
    {CtorInitializationIndirectReading, FunctionInitializationReading, FunctionPointerReading,
     MultipleInheritanceVirtualFunctionsWithSuper(<<"C", "B", "A">>),
     MultipleInheritanceVirtualFunctionsWithSuper(<<"B">>),
     CtorIndirectInitialization}

-----------------------------------------------------------------------------
(* Bounded families of programs.                                            *)

MaxNodes == 3        \* identifier nodes in the callables of a program of CallPrograms

SeqsOf(A, n) == IF n = 0 THEN {<<>>} ELSE [1..n -> A]

RECURSIVE Sum(_)
Sum(s) == IF Len(s) = 0 THEN 0 ELSE Head(s) + Sum(Tail(s))

Splits(k, total) == {n \in [1..k -> 0..total] : Sum(n) <= total}

\* Contracts B and C, C is B; x is an immutable of B.  B declares f and g and
\* a constructor, C declares a constructor and, when f is virtual, overrides f.
\* Identifiers are resolved as the name resolver does: f in the code of C is
\* C.f when C overrides f and B.f otherwise; super.f in C is B.f.
CallProgram(lin, virtual, b) ==
    Program(lin,
            <<ImmutableX("B")>>,
            <<Function("B.f", "B", "f", virtual, b[1]),
              Function("B.g", "B", "g", FALSE, b[2]),
              Constructor("B.ctor", "B", b[3]),
              Constructor("C.ctor", "C", b[4])>>
            \o (IF virtual THEN <<Function("C.f", "C", "f", FALSE, b[5])>> ELSE <<>>),
            <<>>)

CodeOfB(varAtoms) == varAtoms \cup {Call("B.f"), Call("B.g")}

CodeOfC(varAtoms, virtual) ==
    varAtoms \cup {Call(IF virtual THEN "C.f" ELSE "B.f"), Member("B.f")}

CallProgramsOf(varAtoms, lin, virtual) ==
    UNION {
        {CallProgram(lin, virtual, <<b1, b2, b3, b4, b5>>) :
            b1 \in SeqsOf(CodeOfB(varAtoms), n[1]),
            b2 \in SeqsOf(CodeOfB(varAtoms), n[2]),
            b3 \in SeqsOf(CodeOfB(varAtoms), n[3]),
            b4 \in SeqsOf(CodeOfC(varAtoms, virtual), n[4]),
            b5 \in SeqsOf(CodeOfC(varAtoms, virtual), n[5])} :
        n \in {m \in Splits(5, MaxNodes) :
                  /\ ~virtual => m[5] = 0
                  /\ lin = <<"B">> => m[4] = 0 /\ m[5] = 0}}

CallPrograms(varAtoms) ==
    CallProgramsOf(varAtoms, <<"B">>, FALSE)
    \cup UNION {CallProgramsOf(varAtoms, <<"C", "B">>, virtual) : virtual \in BOOLEAN}

\* Contracts A, B is A, C is B; x is an immutable of A.  A declares k and a
\* virtual f, B a constructor, C overrides f.
ChainProgram(lin, k, f, ctor, override) ==
    Program(lin,
            <<ImmutableX("A")>>,
            <<Function("A.k", "A", "k", FALSE, k),
              Function("A.f", "A", "f", TRUE, f),
              Constructor("B.ctor", "B", ctor),
              Function("C.f", "C", "f", FALSE, override)>>,
            <<>>)

ChainPrograms ==
    {ChainProgram(lin, k, f, ctor, override) :
        lin \in {<<"C", "B", "A">>, <<"B", "A">>},
        k \in {<<>>, <<Call("A.f")>>, <<Read("x")>>},
        f \in {<<>>, <<Read("x")>>},
        ctor \in {<<>>, <<Call("A.k")>>, <<Member("A.k")>>, <<Call("A.f")>>, <<Member("A.f")>>},
        override \in {<<>>, <<Read("x")>>, <<Member("A.f")>>, <<Read("x"), Member("A.f")>>}}

\* Contracts B and C, C is B; B declares a virtual modifier m, invoked on its
\* constructor and on f, and C overrides m.
ModifierProgram(lin, m, override, f) ==
    Program(lin,
            <<ImmutableX("B")>>,
            <<Modifier("B.m", "B", "m", TRUE, m),
              Callable("B.ctor", "B", "", "constructor", FALSE, "()", <<Call("B.m")>>,
                       <<Assign("x")>>),
              Callable("B.f", "B", "f", "function", FALSE, "()", <<Call("B.m")>>, f),
              Modifier("C.m", "C", "m", FALSE, override)>>,
            <<>>)

ModifierPrograms ==
    {ModifierProgram(lin, m, override, f) :
        lin \in {<<"C", "B">>, <<"B">>},
        m \in {<<>>, <<Read("x")>>, <<Assign("x")>>},
        override \in {<<>>, <<Read("x")>>, <<Assign("x")>>},
        f \in {<<>>, <<Read("x")>>}}

MaxNest == 2         \* nesting depth of if, while and for around a statement of NestPrograms

Wrap(S) ==
    UNION {{If(<<>>, <<s>>, <<>>), If(<<>>, <<>>, <<s>>), If(<<s>>, <<>>, <<>>),
            While(<<>>, <<s>>), While(<<s>>, <<>>),
            For(<<>>, <<s>>), For(<<s>>, <<>>)} : s \in S}

RECURSIVE Nested(_, _)
Nested(leaves, depth) ==
    IF depth = 0 THEN leaves
    ELSE Nested(leaves, depth - 1) \cup Wrap(Nested(leaves, depth - 1))

ImmutableY == StateVar("y", "C", TRUE, FALSE, <<>>)

\* Contracts B and C, C is B; x is an immutable of B and y one of C.  One
\* statement s, nested in control structures, sits in the callable `slot`.
NestProgram(lin, slot, s) ==
    Program(lin,
            <<ImmutableX("B")>> \o (IF lin = <<"B">> THEN <<>> ELSE <<ImmutableY>>),
            <<Constructor("B.ctor", "B", IF slot = "B.ctor" THEN <<s>> ELSE <<Assign("x")>>),
              Constructor("C.ctor", "C", IF slot = "C.ctor" THEN <<s>> ELSE <<Assign("y")>>),
              Function("C.h", "C", "h", FALSE, IF slot = "C.h" THEN <<s>> ELSE <<>>)>>,
            <<>>)

NestLeaves(slot) ==
    IF slot = "B.ctor" THEN {Assign("x"), Read("x")}
    ELSE IF slot = "C.ctor" THEN {Assign("x"), Assign("y"), Read("x"), Call("C.h")}
    ELSE {Assign("y")}

NestPrograms ==
    UNION {{NestProgram(lin, slot, s) : s \in Nested(NestLeaves(slot), MaxNest)} :
              lin \in {<<"C", "B">>}, slot \in {"B.ctor", "C.ctor", "C.h"}}
    \cup {NestProgram(<<"B">>, "B.ctor", s) : s \in Nested(NestLeaves("B.ctor"), MaxNest)}

MaxStmts == 3        \* statements in the callables of a program of CtorPrograms

\* Contracts B and C, C is B; x is an immutable of B, with or without an
\* initializer, and y one of C; B may declare a state variable z before x whose
\* initializer is zValue.  B declares a constructor and h, C a constructor.
CtorProgram(lin, zValues, xHasValue, b) ==
    Program(lin,
            [i \in DOMAIN zValues |-> StateVar("z", "B", FALSE, TRUE, zValues[i])]
            \o <<StateVar("x", "B", TRUE, xHasValue, <<>>)>>
            \o (IF lin = <<"B">> THEN <<>> ELSE <<ImmutableY>>),
            <<Constructor("B.ctor", "B", b[1]),
              Function("B.h", "B", "h", FALSE, b[2]),
              Constructor("C.ctor", "C", b[3])>>,
            <<>>)

CtorProgramsOf(lin, zValues, xHasValue) ==
    UNION {
        {CtorProgram(lin, zValues, xHasValue, <<b1, b2, b3>>) :
            b1 \in SeqsOf({Assign("x"), Return(<<>>), Call("B.h")}, n[1]),
            b2 \in SeqsOf({Assign("x"), Read("x"), Return(<<Read("x")>>)}, n[2]),
            b3 \in SeqsOf({Assign("x"), Assign("y"), Return(<<>>)}, n[3])} :
        n \in {m \in Splits(3, MaxStmts) : lin = <<"B">> => m[3] = 0}}

CtorPrograms ==
    UNION {CtorProgramsOf(lin, <<>>, xHasValue) \cup CtorProgramsOf(lin, <<zValue>>, TRUE) :
              lin \in {<<"C", "B">>, <<"B">>},
              zValue \in {<<Call("B.h")>>, <<Assign("x")>>},
              xHasValue \in BOOLEAN}

\* Contracts A, B is A, C is A(..), B(..): two inheritance specifiers of C carry
\* arguments, each a reference to a function of C; x is an immutable of B.
BaseArgumentsProgram(args1, args2, f, g) ==
    Program(<<"C", "B", "A">>,
            <<ImmutableX("B")>>,
            <<Constructor("A.ctor", "A", <<>>),
              Constructor("B.ctor", "B", <<Assign("x")>>),
              Function("C.f", "C", "f", FALSE, f),
              Function("C.g", "C", "g", FALSE, g)>>,
            <<BaseArgs("C", args1), BaseArgs("C", args2)>>)

BaseArgumentsPrograms ==
    {BaseArgumentsProgram(args1, args2, f, g) :
        args1 \in {<<Member("C.f")>>, <<Member("C.g")>>, <<Read("x")>>},
        args2 \in {<<Member("C.f")>>, <<Member("C.g")>>, <<Call("C.g")>>},
        f \in {<<>>, <<Read("x")>>},
        g \in {<<>>, <<Return(<<Read("x")>>)>>, <<Assign("x")>>}}

\* Contracts B and C, C is B; x is a private immutable of B, with or without
\* an initializer, and z a private state variable of B whose initializer calls
\* f.  B declares a constructor and f.
PrivateProgram(lin, xHasValue, ctor, f) ==
    Program(lin,
            <<PrivateStateVar("z", "B", FALSE, TRUE, <<Call("B.f")>>),
              PrivateStateVar("x", "B", TRUE, xHasValue, <<>>)>>,
            <<Constructor("B.ctor", "B", ctor),
              Function("B.f", "B", "f", FALSE, f)>>,
            <<>>)

PrivatePrograms ==
    {PrivateProgram(lin, xHasValue, ctor, f) :
        lin \in {<<"C", "B">>, <<"B">>},
        xHasValue \in BOOLEAN,
        ctor \in {<<>>, <<Assign("x")>>, <<Call("B.f")>>, <<Return(<<>>), Assign("x")>>,
                  <<Read("x"), Return(<<>>), Assign("x"), Assign("x")>>},
        f \in {<<>>, <<Read("x")>>, <<Assign("x")>>}}

Init ==
    \/ \E p \in SyntaxTests : Start(p)
    \/ \E p \in PrivatePrograms : Start(p)
    \/ \E p \in BaseArgumentsPrograms : Start(p)
    \/ \E p \in CallPrograms({Read("x")}) : Start(p)
    \/ \E p \in CallPrograms({Assign("x")}) : Start(p)
    \/ \E p \in ChainPrograms : Start(p)
    \/ \E p \in ModifierPrograms : Start(p)
    \/ \E p \in NestPrograms : Start(p)
    \/ \E p \in CtorPrograms : Start(p)

Spec == Init /\ [][Next]_vars

-----------------------------------------------------------------------------
(* Static structure of a program, for stating the properties.               *)

Lin(p) == {p.linearizedBaseContracts[i] : i \in DOMAIN p.linearizedBaseContracts}

StateVars(p) ==
    {p.stateVariablesIncludingInherited[i] : i \in DOMAIN p.stateVariablesIncludingInherited}

Immutables(p) == {v \in StateVars(p) : v.immutable}

\* the state variables declared by the contracts of the analysed hierarchy
DeclaredStateVars(p) ==
    {v \in {p.stateVariables[i] : i \in DOMAIN p.stateVariables} : v.contract \in Lin(p)}

\* the callables declared by the contracts of the analysed hierarchy
Analysed(p) == {d \in {p.callables[i] : i \in DOMAIN p.callables} : d.contract \in Lin(p)}

Constructors(p) == {constructor(p, K) : K \in Lin(p)} \ {None}

NodesOf(s) == {Flatten(s)[i] : i \in DOMAIN Flatten(s)}

CallableNodes(d) == NodesOf(d.modifiers \o d.body)

\* initializers of the state variables and base-constructor arguments
RootNodes(p) ==
    UNION {NodesOf(v.value) : v \in {w \in StateVars(p) : w.hasValue}}
    \cup UNION {NodesOf(baseContractArguments(p, K)) : K \in Lin(p)}

RefersToImmutable(p, n) == IsStateVar(p, n.ref) /\ Var(p, n.ref).immutable

IsAssignment(p, n) == n.k = "assign" /\ RefersToImmutable(p, n)

IsRead(p, n) == n.k \in {"read", "compound"} /\ RefersToImmutable(p, n)

\* The function (modifier) that a virtual call of c executes in the analysed
\* contract: the first one in the linearization, most derived first, with the
\* name and the parameter and return types of c (for a modifier: the name).
FinalOverrideRule(p, c) ==
    LET d == Decl(p, c)
        lin == p.linearizedBaseContracts
        Members(K) == IF d.kind = "modifier" THEN functionModifiers(p, K)
                      ELSE definedFunctions(p, K)
        Cands == {m \in UNION {{<<i, j>> : j \in DOMAIN Members(lin[i])} : i \in DOMAIN lin} :
                     /\ Members(lin[m[1]])[m[2]].name = d.name
                     /\ d.kind = "modifier" \/ Members(lin[m[1]])[m[2]].sig = d.sig}
        first == CHOOSE m \in Cands :
                     \A o \in Cands : m[1] < o[1] \/ (m[1] = o[1] /\ m[2] <= o[2])
    IN  IF ~d.virtual \/ Cands = {} THEN c ELSE Members(lin[first[1]])[first[2]].id

\* callables that the call edges of the nodes N lead to
Targets(p, N) ==
    {FinalOverrideRule(p, n.ref) : n \in {m \in N : m.k = "call"}}
    \cup {n.ref : n \in {m \in N : m.k = "member"}}

RECURSIVE ReachFrom(_, _)
ReachFrom(p, R) ==
    LET next == R \cup Targets(p, UNION {CallableNodes(Decl(p, c)) : c \in R})
    IN  IF next = R THEN R ELSE ReachFrom(p, next)

\* callables statically reachable from an initializer, a constructor of the
\* linearized bases or a base-constructor argument
ConstructionReachable(p) == ReachFrom(p, Constructors(p) \cup Targets(p, RootNodes(p)))

ConstructionNodes(p) ==
    RootNodes(p) \cup UNION {CallableNodes(Decl(p, c)) : c \in ConstructionReachable(p)}

HasError(kind, loc) == \E i \in DOMAIN errors : errors[i].kind = kind /\ errors[i].loc = loc

ErrorsOf(kind) == {i \in DOMAIN errors : errors[i].kind = kind}

WalksOf(c) == {i \in DOMAIN walks : walks[i].c = c}

\* the nodes of the code walked so far
WalkedNodes == RootNodes(prog) \cup UNION {CallableNodes(Decl(prog, walks[i].c)) : i \in DOMAIN walks}

-----------------------------------------------------------------------------
(* Properties.                                                              *)

\* C1: at the end of the analysis, every read of an immutable state variable
\* in code statically reachable from an initializer, a constructor of the
\* linearized bases or a base-constructor argument has an
\* ImmutableReadDuringConstruction diagnostic at the read.
ReadIsolationFlagged ==
    Done => \A n \in ConstructionNodes(prog) :
                n.k = "read" /\ RefersToImmutable(prog, n)
                    => HasError("ImmutableReadDuringConstruction", n.loc)

\* C2: analyze() raises no hard failure: the solAssert of line 32 never throws.
NoHardFailure == ~failed

\* C3: the body of every callable is walked at most once in one analysis.
EachCallableWalkedOnce ==
    \A i, j \in DOMAIN walks : walks[i].c = walks[j].c => i = j

\* C4: at the end of the analysis, an immutable with n >= 2 assignment sites in
\* the walked code has n - 1 DoubleInit diagnostics, and n when it has an
\* initializer as well.
ExactlyOnceDoubleInit ==
    Done => \A v \in Immutables(prog) :
                LET n == Cardinality({s \in WalkedNodes : s.k = "assign" /\ s.ref = v.id})
                    k == Cardinality({i \in ErrorsOf("DoubleInit") : errors[i].var = v.id})
                IN  n >= 2 => k = (IF v.hasValue THEN n ELSE n - 1)

\* v is assigned by the constructor of its own contract before each return
\* statement of that constructor and before its end
AssignedByOwnConstructor(p, v) ==
    /\ constructor(p, v.contract) # None
    /\ LET F == Flatten(Decl(p, constructor(p, v.contract)).body)
           AssignedBefore(j) == \E i \in 1..(j - 1) : F[i].k = "assign" /\ F[i].ref = v.id
       IN  /\ AssignedBefore(Len(F) + 1)
           /\ \A j \in DOMAIN F : F[j].k = "return" => AssignedBefore(j)

ConstructorsAssignOwnImmutables(p) ==
    \A v \in Immutables(p) :
        IF constructor(p, v.contract) # None THEN AssignedByOwnConstructor(p, v) ELSE v.hasValue

\* C5: when every constructor of the linearized bases assigns the immutables
\* of its own contract before each of its returns and before its end, and the
\* other immutables have initializers, the analysis emits no
\* IncompleteConstruction diagnostic.
NoFalseIncompleteConstruction ==
    Done /\ ConstructorsAssignOwnImmutables(prog) => ErrorsOf("IncompleteConstruction") = {}

\* the nodes of s, each with whether it lies in the body of a loop and
\* whether it lies in an arm of a conditional
RECURSIVE Placed(_, _, _)
Placed(s, inLoop, inArm) ==
    UNION {{[n |-> s[i], inLoop |-> inLoop, inArm |-> inArm]}
           \cup Placed(s[i].c, inLoop, inArm)
           \cup Placed(s[i].t, inLoop \/ s[i].k \in {"while", "for"}, inArm \/ s[i].k = "if")
           \cup Placed(s[i].e, inLoop, inArm \/ s[i].k = "if") : i \in DOMAIN s}

\* assignments to an immutable in the constructor of a contract that does not
\* declare the immutable
ForeignAssignments(p) ==
    UNION {{n \in CallableNodes(Decl(p, c)) :
               IsAssignment(p, n) /\ Var(p, n.ref).contract # Decl(p, c).contract} :
           c \in Constructors(p)}

\* C6: at the end of the analysis, every assignment to an immutable in the
\* constructor of another contract than the one declaring it has a
\* WrongContractInit diagnostic and none of InvalidInitLocation, InitInLoop,
\* InitInBranch.
OwnershipProperty ==
    Done => \A n \in ForeignAssignments(prog) :
                /\ HasError("WrongContractInit", n.loc)
                /\ ~HasError("InvalidInitLocation", n.loc)
                /\ ~HasError("InitInLoop", n.loc)
                /\ ~HasError("InitInBranch", n.loc)

\* a foreign assignment inside a loop inside an if arm has been analysed
OwnershipWitness ==
    /\ Done
    /\ \E c \in Constructors(prog) :
           \E s \in Placed(Decl(prog, c).body, FALSE, FALSE) :
               /\ s.n \in ForeignAssignments(prog)
               /\ s.inLoop /\ s.inArm
               /\ HasError("WrongContractInit", s.n.loc)

\* The only defect of the program is one helper that assigns the only
\* immutable and is called once, from a constructor.
SingleHelperProgram(p) ==
    LET code  == RootNodes(p) \cup UNION {CallableNodes(d) : d \in Analysed(p)}
        refs  == {n \in code : RefersToImmutable(p, n)}
        edges == {n \in code : n.k \in {"call", "member"}}
    IN  /\ \A n \in code : n.k \in {"assign", "call"}
        /\ Cardinality(refs) = 1
        /\ Cardinality(edges) = 1
        /\ Cardinality(Immutables(p)) = 1
        /\ \A v \in Immutables(p) : ~v.hasValue
        /\ \E h \in Analysed(p) : \E c \in Constructors(p) :
               /\ ~isConstructor(h)
               /\ \E n \in CallableNodes(h) : n \in refs /\ n.k = "assign"
               /\ \E n \in CallableNodes(Decl(p, c)) : n \in edges /\ n.k = "call" /\ n.ref = h.id

\* C7: at the end of the analysis, every assignment to an immutable in a walked
\* callable that is no constructor has an InvalidInitLocation diagnostic and the
\* immutable is recorded as initialized; a program whose only defect is one
\* such helper called once from a constructor has exactly one diagnostic.
HelperInitialization ==
    Done =>
        /\ \A i \in DOMAIN walks :
               ~isConstructor(Decl(prog, walks[i].c)) =>
                   \A n \in CallableNodes(Decl(prog, walks[i].c)) :
                       IsAssignment(prog, n) =>
                           /\ HasError("InvalidInitLocation", n.loc)
                           /\ n.ref \in m_initializedStateVariables
        /\ SingleHelperProgram(prog) => Len(errors) = 1

\* callables of the analysed hierarchy that hold a call edge to c
Callers(p, c) == {d \in Analysed(p) : c \in Targets(p, CallableNodes(d))}

\* the largest set of callables below S that are referenced from construction
\* code only
RECURSIVE ConstructionOnly(_, _)
ConstructionOnly(p, S) ==
    LET keep == {c \in S : \A d \in Callers(p, c) : isConstructor(d) \/ d.id \in S}
    IN  IF keep = S THEN S ELSE ConstructionOnly(p, keep)

BaseConstructors(p) == Constructors(p) \ {constructor(p, m_currentContract(p))}

\* c is the most-derived override of a virtual function and is reached only
\* from a base constructor, through a qualified (super) call
OverrideReachedBySuperChain(p, c) ==
    /\ Decl(p, c).contract = m_currentContract(p)
    /\ \E e \in Analysed(p) : e.virtual /\ e.id # c /\ FinalOverrideRule(p, e.id) = c
    /\ c \in ConstructionOnly(p, ConstructionReachable(p) \ Constructors(p))
    /\ \E m \in UNION {CallableNodes(Decl(p, r)) : r \in ReachFrom(p, BaseConstructors(p))} :
           m.k = "member" /\ c \in ReachFrom(p, {m.ref})

\* C8: a call edge by an identifier walks the final override of the referenced
\* callable, a qualified member access walks the referenced declaration itself;
\* at the end of the analysis a read of an immutable in the most-derived
\* override reached only through a super chain from a base constructor has an
\* ImmutableReadDuringConstruction diagnostic.
DispatchRule ==
    /\ \A i \in DOMAIN walks :
           /\ walks[i].via = "identifier" => walks[i].c = FinalOverrideRule(prog, walks[i].ref)
           /\ walks[i].via = "member" => walks[i].c = walks[i].ref
    /\ Done => \A c \in {d.id : d \in Analysed(prog)} :
                   OverrideReachedBySuperChain(prog, c) =>
                       \A n \in CallableNodes(Decl(prog, c)) :
                           IsRead(prog, n) => HasError("ImmutableReadDuringConstruction", n.loc)

\* C9: at the end of the analysis, every assignment to an immutable in the body
\* of a loop or in an arm of a conditional, in the constructor of the contract
\* declaring the immutable, has an InitInLoop or an InitInBranch diagnostic.
LoopsAndBranchesRejected ==
    Done => \A c \in Constructors(prog) :
                \A s \in Placed(Decl(prog, c).body, FALSE, FALSE) :
                    /\ IsAssignment(prog, s.n)
                    /\ Var(prog, s.n.ref).contract = Decl(prog, c).contract
                    /\ s.inLoop \/ s.inArm
                    => HasError("InitInLoop", s.n.loc) \/ HasError("InitInBranch", s.n.loc)

DriverTasks ==
    {"analyze", "recordInitializer", "contract", "markVisited", "leaveConstructionContext",
     "sweepFunction", "sweepModifier", "finalCheck"}

\* a walk started by the sweep of functions and modifiers is under way
InSweepWalk ==
    LET pending == SelectSeq(agenda, LAMBDA t : t.t \in DriverTasks)
    IN  /\ Len(agenda) > 0
        /\ Head(agenda).t \notin DriverTasks
        /\ Len(pending) > 0
        /\ pending[1].t \in {"sweepFunction", "sweepModifier", "contract", "finalCheck"}

\* C10: every ImmutableReadDuringConstruction diagnostic is at a node of code
\* statically reachable from an initializer, a constructor or a
\* base-constructor argument of the linearized bases, and
\* m_inConstructionContext is false during every walk started by the sweep.
ReadIsolationSilent ==
    /\ InSweepWalk => ~m_inConstructionContext
    /\ Len(agenda) = 0 =>
           \A i \in ErrorsOf("ImmutableReadDuringConstruction") :
               errors[i].loc \in {n.loc : n \in ConstructionNodes(prog)}

\* a callable outside the construction-reachable code that reads an immutable
\* has been walked twice without a diagnostic
ReadIsolationSilentWitness ==
    /\ Done
    /\ \E d \in Analysed(prog) :
           /\ d.id \notin ConstructionReachable(prog)
           /\ Cardinality(WalksOf(d.id)) >= 2
           /\ \E n \in CallableNodes(d) :
                  IsRead(prog, n) /\ ~HasError("ImmutableReadDuringConstruction", n.loc)

\* the IncompleteConstruction diagnostics of the final check (line 60) for v
FinalDiagnostics(v) ==
    {i \in ErrorsOf("IncompleteConstruction") :
        errors[i].loc = <<m_currentContract(prog)>> /\ errors[i].var = v}

\* C11: at the end of the analysis, every immutable without an initializer and
\* without an assignment in the walked code has exactly one
\* IncompleteConstruction diagnostic at the location of the analysed contract,
\* naming the variable; an immutable in m_initializedStateVariables has none.
CompletenessDetection ==
    Done => \A v \in Immutables(prog) :
                /\ (~v.hasValue /\ ~\E n \in WalkedNodes : n.k = "assign" /\ n.ref = v.id)
                       => Cardinality(FinalDiagnostics(v.id)) = 1
                /\ v.id \in m_initializedStateVariables => FinalDiagnostics(v.id) = {}

\* two immutables are never assigned and each has its own diagnostic of the
\* final check
CompletenessDetectionWitness ==
    /\ Done
    /\ \E v, w \in Immutables(prog) :
           /\ v.id # w.id
           /\ ~w.hasValue /\ ~\E n \in WalkedNodes : n.k = "assign" /\ n.ref = w.id
           /\ Cardinality(FinalDiagnostics(w.id)) = 1
           /\ ~v.hasValue /\ ~\E n \in WalkedNodes : n.k = "assign" /\ n.ref = v.id
           /\ Cardinality(FinalDiagnostics(v.id)) = 1

\* the nodes of s, each with whether it lies in a while statement (condition
\* or body) and whether it lies in an arm of an if statement
RECURSIVE Enclosed(_, _, _)
Enclosed(s, inWhile, inArm) ==
    UNION {{[n |-> s[i], inWhile |-> inWhile, inArm |-> inArm]}
           \cup Enclosed(s[i].c, inWhile \/ s[i].k = "while", inArm)
           \cup Enclosed(s[i].t, inWhile \/ s[i].k = "while", inArm \/ s[i].k = "if")
           \cup Enclosed(s[i].e, inWhile, inArm \/ s[i].k = "if") : i \in DOMAIN s}

\* the place of the node at loc in the code of callable c
PlaceIn(p, c, loc) ==
    CHOOSE s \in Enclosed(Decl(p, c).modifiers \o Decl(p, c).body, FALSE, FALSE) : s.n.loc = loc

\* the location error that the claim gives a visit of the assignment n
ExpectedLocationError(n) ==
    IF m_currentConstructor = None
    THEN <<Error("InvalidInitLocation", n.loc, n.ref)>>
    ELSE IF Decl(prog, m_currentConstructor).contract # Var(prog, n.ref).contract
    THEN <<Error("WrongContractInit", n.loc, n.ref)>>
    ELSE IF PlaceIn(prog, m_currentConstructor, n.loc).inWhile
    THEN <<Error("InitInLoop", n.loc, n.ref)>>
    ELSE IF PlaceIn(prog, m_currentConstructor, n.loc).inArm
    THEN <<Error("InitInBranch", n.loc, n.ref)>>
    ELSE <<>>

PrecedenceStep ==
    HeadIs("node") /\ IsAssignment(prog, Head(agenda).n) =>
        LET n == Head(agenda).n
        IN  errors' = errors \o ExpectedLocationError(n)
                      \o (IF n.ref \in m_initializedStateVariables
                          THEN <<Error("DoubleInit", n.loc, n.ref)>>
                          ELSE <<>>)

\* C12: every visit of an assignment to an immutable emits at most one location
\* error: InvalidInitLocation outside a constructor, else WrongContractInit in
\* the constructor of another contract, else InitInLoop when the site lies in
\* the condition or body of a while statement, else InitInBranch when it lies in
\* an arm of an if statement (not its condition), else none; and after it a
\* DoubleInit exactly when the immutable was already recorded.
PrecedenceOfLocationErrors == [][PrecedenceStep]_vars

\* an assignment in the right constructor, inside both a while statement and
\* an arm of an if statement, has been reported InitInLoop and not InitInBranch
PrecedenceWitness ==
    /\ Done
    /\ \E c \in Constructors(prog) :
           \E s \in Enclosed(Decl(prog, c).body, FALSE, FALSE) :
               /\ IsAssignment(prog, s.n)
               /\ Var(prog, s.n.ref).contract = Decl(prog, c).contract
               /\ s.inWhile /\ s.inArm
               /\ HasError("InitInLoop", s.n.loc)
               /\ ~HasError("InitInBranch", s.n.loc)

\* the loop of lines 28-33 has not finished
InitializerPhase == \E i \in DOMAIN agenda : agenda[i].t \in {"analyze", "recordInitializer"}

InitializerNodes(p) ==
    UNION {NodesOf(v.value) : v \in {w \in DeclaredStateVars(p) : w.hasValue}}

\* C13: while initializers remain to be recorded the validator is in
\* construction context and no constructor or swept callable has been walked;
\* once none remains, every state variable declared in the hierarchy with an
\* initializer is recorded.  No
\* IncompleteConstruction diagnostic names a variable with an initializer; at
\* the end of the analysis every read of an immutable in a callable reached from
\* an initializer has an ImmutableReadDuringConstruction diagnostic and every
\* walked assignment to an immutable with an initializer has a DoubleInit.
InitializerOrdering ==
    /\ InitializerPhase /\ ~HeadIs("analyze") =>
           /\ m_inConstructionContext
           /\ \A i \in DOMAIN walks : walks[i].ctx /\ walks[i].via \notin {"driver", "sweep"}
    /\ ~InitializerPhase /\ ~failed =>
           \A v \in DeclaredStateVars(prog) : v.hasValue => v.id \in m_initializedStateVariables
    /\ \A i \in ErrorsOf("IncompleteConstruction") : ~Var(prog, errors[i].var).hasValue
    /\ Done =>
           /\ \A c \in ReachFrom(prog, Targets(prog, InitializerNodes(prog))) :
                  \A n \in CallableNodes(Decl(prog, c)) :
                      IsRead(prog, n) => HasError("ImmutableReadDuringConstruction", n.loc)
           /\ \A n \in WalkedNodes :
                  IsAssignment(prog, n) /\ Var(prog, n.ref).hasValue
                      => HasError("DoubleInit", n.loc)

\* an IncompleteConstruction diagnostic for v at loc
Incomplete(loc, v) ==
    \E i \in ErrorsOf("IncompleteConstruction") : errors[i].loc = loc /\ errors[i].var = v

\* the assignments to v in the whole code of the analysed hierarchy
AssignmentsTo(p, v) ==
    {n \in RootNodes(p) \cup UNION {CallableNodes(d) : d \in Analysed(p)} :
        n.k = "assign" /\ n.ref = v}

\* C14: an IncompleteConstruction diagnostic is at the contract or at a return
\* statement of a constructor, never at a return of another callable.  At the
\* end of the analysis: a read of an immutable in the expression of a return of
\* a non-constructor callable walked in construction context is flagged; at
\* every return r of a constructor, an immutable that is never initialized is
\* reported at r, one assigned in the constructor before r or in the
\* expression of r is not reported at r, and one assigned only after r is.
ReturnHandling ==
    /\ \A i \in ErrorsOf("IncompleteConstruction") :
           \/ errors[i].loc = <<m_currentContract(prog)>>
           \/ \E c \in Constructors(prog) : \E r \in CallableNodes(Decl(prog, c)) :
                  r.k = "return" /\ r.loc = errors[i].loc
    /\ Done =>
           /\ \A i \in DOMAIN walks :
                  walks[i].ctx /\ ~isConstructor(Decl(prog, walks[i].c)) =>
                      \A r \in CallableNodes(Decl(prog, walks[i].c)) :
                          r.k = "return" =>
                              \A n \in NodesOf(r.c) :
                                  IsRead(prog, n)
                                      => HasError("ImmutableReadDuringConstruction", n.loc)
           /\ \A c \in Constructors(prog) :
                  LET F == Flatten(Decl(prog, c).body)
                  IN  \A j \in DOMAIN F : \A v \in Immutables(prog) :
                          F[j].k = "return" =>
                              LET before == {F[i] : i \in 1..(j - 1)} \cup NodesOf(F[j].c)
                                  after  == {F[i] : i \in (j + 1)..Len(F)} \ NodesOf(F[j].c)
                              IN  /\ v.id \notin m_initializedStateVariables
                                      => Incomplete(F[j].loc, v.id)
                                  /\ (\E n \in before : n.k = "assign" /\ n.ref = v.id)
                                      => ~Incomplete(F[j].loc, v.id)
                                  /\ /\ ~v.hasValue
                                     /\ AssignmentsTo(prog, v.id) # {}
                                     /\ AssignmentsTo(prog, v.id) \subseteq after
                                     => Incomplete(F[j].loc, v.id)

\* a constructor assigns an immutable only after a return, the return reports
\* the immutable, and a return of a function walked in construction context
\* reads an immutable in its expression and is not reported
ReturnHandlingWitness ==
    /\ Done
    /\ \E c \in Constructors(prog) :
           LET F == Flatten(Decl(prog, c).body)
           IN  \E j \in DOMAIN F : \E v \in Immutables(prog) :
                   /\ F[j].k = "return"
                   /\ AssignmentsTo(prog, v.id) # {}
                   /\ AssignmentsTo(prog, v.id) \subseteq {F[i] : i \in (j + 1)..Len(F)}
                   /\ Incomplete(F[j].loc, v.id)
    /\ \E i \in DOMAIN walks :
           /\ walks[i].ctx /\ ~isConstructor(Decl(prog, walks[i].c))
           /\ \E r \in CallableNodes(Decl(prog, walks[i].c)) :
                  /\ r.k = "return"
                  /\ \E n \in NodesOf(r.c) :
                         IsRead(prog, n) /\ HasError("ImmutableReadDuringConstruction", n.loc)
                  /\ \A e \in ErrorsOf("IncompleteConstruction") : errors[e].loc # r.loc

\* the analysis runs until it completes or throws
SpecFair == Init /\ [][Next]_vars /\ WF_vars(Next)

\* walks entered along a call edge (identifier or member access)
EdgeWalks == {i \in DOMAIN walks : walks[i].via \in {"identifier", "member"}}

\* walks launched by the driver (constructors, swept functions and modifiers)
DriverWalks == {i \in DOMAIN walks : walks[i].via \in {"driver", "sweep"}}

\* C15: the analysis terminates; along call edges every callable is entered at
\* most once (each descent follows a fresh insertion into m_visitedCallables),
\* the driver launches at most one walk per callable, and so the number of
\* walks is at most the number of walks of the driver plus the number of
\* callables.
Termination ==
    /\ <>(Len(agenda) = 0)
    /\ [](/\ \A i, j \in EdgeWalks : walks[i].c = walks[j].c => i = j
          /\ \A i \in EdgeWalks : walks[i].c \in m_visitedCallables
          /\ \A i, j \in DriverWalks : walks[i].c = walks[j].c => i = j
          /\ Len(walks) <= Cardinality(DriverWalks) + Len(prog.callables)
          /\ Len(walks) <= 2 * Len(prog.callables))

\* the analysis has ended on a program with a cycle of calls through virtual
\* dispatch and a super-qualified call: c calls a virtual function whose final
\* override d calls c back through a member access
TerminationWitness ==
    /\ Len(agenda) = 0
    /\ \E c, d \in Analysed(prog) :
           /\ c.id # d.id
           /\ \E n \in CallableNodes(c) :
                  n.k = "call" /\ n.ref # d.id /\ FinalOverrideRule(prog, n.ref) = d.id
           /\ \E m \in CallableNodes(d) : m.k = "member" /\ m.ref = c.id
           /\ WalksOf(c.id) # {} /\ WalksOf(d.id) # {}

Suffix(s, k) == SubSeq(s, k + 1, Len(s))

First(s, kinds) ==
    IF \E i \in DOMAIN s : s[i].t \in kinds
    THEN CHOOSE i \in DOMAIN s : s[i].t \in kinds /\ \A j \in 1..(i - 1) : s[j].t \notin kinds
    ELSE 0

\* m_inLoop when the continuation s starts to run, by the discipline: true
\* exactly inside a while statement that has not been left
InLoopAt(s) == First(s, {"restoreLoop"}) # 0

\* m_inBranch when the continuation s starts to run, by the discipline: false
\* outside every if statement, true in the arms of the innermost if statement
\* not yet left, and in its condition the value on entry to that statement
InBranchAt(s) ==
    LET k == First(s, {"enterBranch", "restoreBranch"})
    IN  IF k = 0 THEN FALSE
        ELSE IF s[k].t = "restoreBranch" THEN TRUE
        ELSE s[k + First(Suffix(s, k), {"restoreBranch"})].b

NodeTasks == {"node", "memberDeclaration", "checkReturn"}

\* the constructor that is the innermost callable enclosing node n, if any
EnclosingConstructor(p, n) ==
    IF Len(n.loc) > 0 /\ n.loc[1] \in Constructors(p) THEN n.loc[1] ELSE None

\* m_currentConstructor when the continuation s starts to run, where s begins
\* with a node or a step of the driver
CurrentConstructorAt(p, s) ==
    IF s[1].t \in NodeTasks THEN EnclosingConstructor(p, s[1].n) ELSE None

LaunchedByDriver(t) ==
    \/ t.t \in DriverTasks
    \/ t.t = "callable" /\ t.via \in {"driver", "sweep"}
    \/ t.t = "node" /\ t.n.loc[1] \notin Ids(prog.callables)

FlagsRestored ==
    /\ m_inLoop = InLoopAt(agenda)
    /\ m_inBranch = InBranchAt(agenda)
    /\ \A k \in DOMAIN agenda :
           /\ agenda[k].t = "restoreLoop" => agenda[k].b = InLoopAt(Suffix(agenda, k))
           /\ agenda[k].t = "restoreBranch" => agenda[k].b = InBranchAt(Suffix(agenda, k))
           /\ /\ agenda[k].t = "restoreConstructor"
              /\ k < Len(agenda)
              /\ agenda[k + 1].t \in NodeTasks \cup DriverTasks
              => agenda[k].c = CurrentConstructorAt(prog, Suffix(agenda, k))
    /\ Len(agenda) > 0 /\ Head(agenda).t \in NodeTasks \cup DriverTasks
           => m_currentConstructor = CurrentConstructorAt(prog, agenda)
    /\ Len(agenda) > 0 /\ LaunchedByDriver(Head(agenda))
           => ~m_inBranch /\ ~m_inLoop /\ m_currentConstructor = None
    /\ Len(agenda) = 0 => ~m_inBranch /\ ~m_inLoop /\ m_currentConstructor = None

ContextKept ==
    m_inConstructionContext' # m_inConstructionContext
        => Head(agenda).t \in {"analyze", "contract", "leaveConstructionContext"}

\* C16: m_inLoop, m_inBranch and m_currentConstructor always have the values the
\* save-and-restore discipline gives them, and every saved value is the value
\* on entry: after a while statement, an if statement or a callable has been
\* walked the flags are what they were before it.  The flags are false and none
\* whenever the driver runs or launches a walk; m_currentConstructor is a
\* constructor exactly at the nodes that constructor encloses; and
\* m_inConstructionContext changes at steps of the driver only.
SaveRestoreDiscipline == []FlagsRestored /\ [][ContextKept]_vars

\* a callable has been entered from inside nested if and while statements of a
\* constructor: the loop and branch flags are set, and a restore of each flag
\* and of the constructor is pending
SaveRestoreWitness ==
    /\ m_inLoop /\ m_inBranch
    /\ First(agenda, {"restoreLoop"}) # 0
    /\ First(agenda, {"restoreBranch"}) # 0
    /\ \E k \in DOMAIN agenda : agenda[k].t = "restoreConstructor" /\ agenda[k].c # None

\* C17: an immutable without an initializer and with exactly one assignment in
\* the whole code of the analysed hierarchy never has a DoubleInit diagnostic.
SingleSiteNoDoubleInit ==
    \A v \in Immutables(prog) :
        ~v.hasValue /\ Cardinality(AssignmentsTo(prog, v.id)) = 1
            => \A i \in ErrorsOf("DoubleInit") : errors[i].var # v.id

====
